---- MODULE Spec2Model ----
(***************************************************************************)
(* A model of playlist_by_hours.py: the splitting of .m3u playlists into   *)
(* one file per hour.  Text is modelled as sequences of one-character      *)
(* strings, file names included, so that slicing, the regular expression   *)
(* of extract_hour_from_header, os.path.splitext and the newline           *)
(* translation of Python's text mode are computed and not assumed.         *)
(***************************************************************************)
EXTENDS Naturals, Sequences, FiniteSets, TLC

VARIABLES
    os_name,                \* "posix" or "nt": the platform the script runs on
    directory,              \* args.directory: DOT (the working directory) or a name in it
    output,                 \* args.output: NONE or a name in the working directory
    listing,                \* the order in which os.listdir yields the scan directory
    fs,                     \* the working directory: name -> node
    m3u_files,              \* main: list(find_m3u_files(args.directory))
    idx,                    \* main: position of the for loop in m3u_files
    pc,                     \* where the process is: start, recreate, open, lines, done, exited
    flines,                 \* process_m3u_file: the lines the open input yields
    pos,                    \* process_m3u_file: index in flines of the next line
    hour,                   \* process_m3u_file: the last extracted hour
    current_hour_filename,  \* process_m3u_file: NONE or the current output file name
    exit_status,            \* Running, then <<status>>, the exit status
                            \* of the process
    error,                  \* NoError or the kind of the fatal error that ended the process
    run,                    \* how many times the tool has been started
    snaps                   \* history: the working directory at the start of each run

vars == <<os_name, directory, output, listing, fs, m3u_files, idx, pc, flines, pos,
          hour, current_hour_filename, exit_status, error, run, snaps>>

---------------------------------------------------------------------------
\* Characters and text

\* Python's None, unlike any text: texts hold one-character strings.
NONE == <<"None">>
\* The value of error while no error has occurred
NoError == "none"
\* The value of exit_status while the process runs
Running == <<>>
DOT == <<".">>
LF == "\n"
CR == "\r"
\* The characters \s matches, among those of the model's alphabet.
Whitespace == {" ", "\t", LF, CR}
M3U == <<".", "m", "3", "u">>
HeaderPrefix == <<"#", "#">>

Max(a, b) == IF a >= b THEN a ELSE b

\* str.startswith / str.endswith
StartsWith(s, p) == Len(s) >= Len(p) /\ SubSeq(s, 1, Len(p)) = p
EndsWith(s, p) == Len(s) >= Len(p) /\ SubSeq(s, Len(s) - Len(p) + 1, Len(s)) = p

\* The concatenation of a sequence of texts.
RECURSIVE Flatten(_)
Flatten(ss) == IF ss = <<>> THEN <<>> ELSE Head(ss) \o Flatten(Tail(ss))

\* header_line[-3:]: the last three characters, or all of a shorter string.
LastThree(s) == SubSeq(s, Max(1, Len(s) - 2), Len(s))

\* The length of the run of whitespace of t that starts at position i.
RECURSIVE SpaceRun(_, _)
SpaceRun(t, i) ==
    IF i <= Len(t) /\ t[i] \in Whitespace THEN 1 + SpaceRun(t, i + 1) ELSE 0

\* The length of the leftmost match of ^\s+|\n|\r|\s+$ that starts at position
\* i of t, 0 when none does.  The alternatives are tried in order.  \s+$ can
\* match only a run of whitespace that reaches the end of t: $ also matches
\* before a final newline, but the greedy \s+ takes that newline.
MatchLen(t, i) ==
    IF i = 1 /\ t[i] \in Whitespace THEN SpaceRun(t, i)
    ELSE IF t[i] = LF THEN 1
    ELSE IF t[i] = CR THEN 1
    ELSE IF t[i] \in Whitespace /\ i + SpaceRun(t, i) = Len(t) + 1 THEN SpaceRun(t, i)
    ELSE 0

\* re.sub(pattern, '', t) from position i on: every match is dropped, every
\* other character kept.
RECURSIVE ReSub(_, _)
ReSub(t, i) ==
    IF i > Len(t) THEN <<>>
    ELSE IF MatchLen(t, i) > 0 THEN ReSub(t, i + MatchLen(t, i))
    ELSE <<t[i]>> \o ReSub(t, i + 1)

\* A mutant of extract_hour_from_header: the slice is header_line[-2:].
extract_hour_two_chars(header_line) ==
    ReSub(SubSeq(header_line, Max(1, Len(header_line) - 1), Len(header_line)), 1)

extract_hour_from_header(header_line) == ReSub(LastThree(header_line), 1)

\* Iterating a file opened with open(path, 'r'): universal newlines.  "\r\n",
\* "\r" and "\n" each end a line and are each read as "\n"; a last line without
\* terminator is yielded as it is.  ReadFrom(raw, i, cur) yields the lines of
\* raw from position i on, cur being the line read so far.
RECURSIVE ReadFrom(_, _, _)
ReadFrom(raw, i, cur) ==
    IF i > Len(raw) THEN (IF cur = <<>> THEN <<>> ELSE <<cur>>)
    ELSE IF raw[i] = CR /\ i < Len(raw) /\ raw[i + 1] = LF
        THEN <<cur \o <<LF>>>> \o ReadFrom(raw, i + 2, <<>>)
    ELSE IF raw[i] = CR \/ raw[i] = LF
        THEN <<cur \o <<LF>>>> \o ReadFrom(raw, i + 1, <<>>)
    ELSE ReadFrom(raw, i + 1, cur \o <<raw[i]>>)

ReadLines(raw) == ReadFrom(raw, 1, <<>>)

\* os.linesep
LineSep(os) == IF os = "nt" THEN <<CR, LF>> ELSE <<LF>>

\* hf.write(line) on a file opened with open(path, 'a'): text mode writes
\* every "\n" as os.linesep.
RECURSIVE WriteText(_, _)
WriteText(os, s) ==
    IF s = <<>> THEN <<>>
    ELSE (IF Head(s) = LF THEN LineSep(os) ELSE <<Head(s)>>) \o WriteText(os, Tail(s))

\* The position of the last "." of name that follows a character other than
\* ".", 0 when there is none.
RECURSIVE LastDot(_, _)
LastDot(name, i) ==
    IF i <= 1 THEN 0
    ELSE IF name[i] = "." /\ (\E j \in 1..(i - 1) : name[j] # ".") THEN i
    ELSE LastDot(name, i - 1)

\* os.path.splitext(name)[0] for a name without separators: the extension
\* starts at the last dot, leading dots aside.
SplitextRoot(name) ==
    IF LastDot(name, Len(name)) = 0 THEN name
    ELSE SubSeq(name, 1, LastDot(name, Len(name)) - 1)

---------------------------------------------------------------------------
\* The file system under the working directory

NameA == <<"a">>
NameB == <<"b">>
NameIn == <<"i", "n">>
NameOut == <<"o", "u", "t">>
NameSub == <<"s", "u", "b">>
FileA == NameA \o M3U
FileB == NameB \o M3U
StaleName == <<"a", "1">> \o M3U

\* The names the model uses in the working directory.
TopNames == {FileA, FileB, NameA, NameB, NameIn, NameOut}

\* A node: kind is absent, file or dir; ro says the entry is read-only; data
\* is a file's contents; ents maps the names in a directory to their nodes.
Absent == [kind |-> "absent", ro |-> FALSE, data |-> <<>>, ents |-> <<>>]
FileNode(data, ro) == [kind |-> "file", ro |-> ro, data |-> data, ents |-> <<>>]
DirNode(ents, ro) == [kind |-> "dir", ro |-> ro, data |-> <<>>, ents |-> ents]
EmptyDir == DirNode(<<>>, FALSE)

\* os.path.isdir / os.path.isfile of a name in the working directory
IsDir(f, name) == name \in DOMAIN f /\ f[name].kind = "dir"

\* The node at os.path.join(dir, name), Absent when there is none.
NodeAt(f, dir, name) ==
    IF dir = DOT THEN (IF name \in DOMAIN f THEN f[name] ELSE Absent)
    ELSE IF IsDir(f, dir) /\ name \in DOMAIN f[dir].ents THEN f[dir].ents[name]
    ELSE Absent

\* find_m3u_files(directory): the names of os.listdir, in its order, that are
\* regular files and end in .m3u.
find_m3u_files(f, dir, order) ==
    LET Keep(name) == NodeAt(f, dir, name).kind = "file" /\ EndsWith(name, M3U)
    IN  SelectSeq(order, Keep)

\* Whether shutil.rmtree can fail under a directory although the onerror
\* hook makes the entry writable and retries: the entries of a read-only
\* directory cannot be unlinked on POSIX, whatever their own mode.
RECURSIVE Blocked(_, _)
Blocked(node, os) ==
    /\ node.kind = "dir"
    /\ \/ os = "posix" /\ node.ro /\ DOMAIN node.ents # {}
       \/ \E n \in DOMAIN node.ents : Blocked(node.ents[n], os)

\* The restriction of a directory's entries to the names in keep.
Restrict(ents, keep) ==
    IF keep = {} THEN <<>> ELSE [n \in keep |-> ents[n]]

\* shutil.rmtree(path, onerror=chmod-and-retry) of a directory node, by an
\* unprivileged user: the outcomes.  It removes everything, read-only files
\* included (on Windows the hook clears the read-only bit and the retry
\* succeeds).  Where an entry is blocked the retry fails too and the hook
\* raises: the blocked entries stay, and so do those os.scandir had not yet
\* reached.
Rmtree(node, os) ==
    IF node.ro /\ os = "posix" /\ DOMAIN node.ents # {}
    THEN {[ok |-> FALSE, ents |-> node.ents]}
    ELSE LET stuck == {n \in DOMAIN node.ents : Blocked(node.ents[n], os)}
         IN  IF stuck = {} THEN {[ok |-> TRUE, ents |-> <<>>]}
             ELSE {[ok |-> FALSE, ents |-> Restrict(node.ents, stuck \cup keep)] :
                      keep \in SUBSET (DOMAIN node.ents \ stuck)}

\* A mutant of create_or_recreate_directory: an existing directory is kept
\* as it is (os.makedirs(directory_name, exist_ok=True)).
create_or_keep_directory(f, directory_name, os) ==
    IF IsDir(f, directory_name) THEN {[ok |-> TRUE, fs |-> f, error |-> NoError]}
    ELSE IF f[directory_name].kind = "absent"
    THEN {[ok |-> TRUE, fs |-> [f EXCEPT ![directory_name] = EmptyDir], error |-> NoError]}
    ELSE {[ok |-> FALSE, fs |-> f, error |-> "FileExistsError"]}

\* create_or_recreate_directory(directory_name): the outcomes, each with the
\* file system it leaves and the exception it raises, if any.
create_or_recreate_directory(f, directory_name, os) ==
    IF IsDir(f, directory_name)
    THEN {IF r.ok
          THEN [ok |-> TRUE, fs |-> [f EXCEPT ![directory_name] = EmptyDir],
                error |-> NoError]
          ELSE [ok |-> FALSE,
                fs |-> [f EXCEPT ![directory_name].ents = r.ents],
                error |-> "PermissionError"] :
             r \in Rmtree(f[directory_name], os)}
    ELSE IF f[directory_name].kind = "absent"
    THEN {[ok |-> TRUE, fs |-> [f EXCEPT ![directory_name] = EmptyDir], error |-> NoError]}
    ELSE {[ok |-> FALSE, fs |-> f, error |-> "FileExistsError"]}

\* main: output_dir = args.output or base_name, for a discovered file name
OutputDir(out, filename) == IF out # NONE THEN out ELSE SplitextRoot(filename)

\* process_m3u_file: f"{os.path.splitext(base_filename)[0]}{hour}.m3u"
HourFilename(filename, h) == SplitextRoot(filename) \o h \o M3U

\* A mutant of AppendLine: the file is opened with mode 'w'.
OverwriteLine(f, dir, name, line, os) ==
    [f EXCEPT ![dir].ents = (name :> FileNode(WriteText(os, line), FALSE)) @@ f[dir].ents]

\* open(output_file_path, 'a') then hf.write(line): the file system after the
\* line is appended to the file name in the directory dir.
AppendLine(f, dir, name, line, os) ==
    LET old == IF name \in DOMAIN f[dir].ents THEN f[dir].ents[name].data ELSE <<>>
        new == FileNode(old \o WriteText(os, line), FALSE)
    IN  [f EXCEPT ![dir].ents = (name :> new) @@ f[dir].ents]

---------------------------------------------------------------------------
\* Bounds and inputs

\* How many times the tool is started.
MaxRuns == 2
\* The most lines of a playlist given to a single pass.
MaxLines == 6
\* The most characters after "##" in a header given to extract_hour_from_header.
MaxHeaderBody == 3

Text(s) == s \o <<LF>>

\* Playlists of the batch runs: one hour; content before any header; an hour
\* label with a path separator, whose output file cannot be opened.
PlaylistOneHour == Text(<<"#", "#", "1">>) \o Text(<<"a">>)
PlaylistNoHeader == Text(<<"a">>)
PlaylistSeparator ==
    Text(<<"#", "#", "1">>) \o Text(<<"a">>) \o Text(<<"#", "#", "/">>) \o Text(<<"b">>)
Playlists == {PlaylistOneHour, PlaylistNoHeader, PlaylistSeparator}

\* What may be in the scan directory under an input's name.
InputNodes == {Absent} \cup {FileNode(p, FALSE) : p \in Playlists}

\* What may be in the way of an output directory before the first run.
StaleFile == FileNode(<<"x">>, FALSE)
StaleDirs ==
    {DirNode(StaleName :> FileNode(Text(<<"x">>), TRUE), FALSE),
     DirNode(NameSub :> DirNode(StaleName :> FileNode(<<>>, FALSE), TRUE), FALSE)}
StaleNodes == {Absent, StaleFile} \cup StaleDirs

\* The lines of the playlists given to a single pass: a header of the hour 1,
\* a header of the hour 2, or content, which is the letter of its line number,
\* so that no two content lines of a playlist are alike.
PassKinds == {"hour1", "hour2", "content"}
Letters == <<"a", "b", "c", "d", "e", "f", "g", "h">>
LineText(kind, i) ==
    IF kind = "hour1" THEN <<"#", "#", "1">>
    ELSE IF kind = "hour2" THEN <<"#", "#", "2">>
    ELSE <<Letters[i]>>

\* The playlists given to a single pass: up to MaxLines lines, all ended by
\* "\n", all by "\r\n" or all by "\r", the last line with or without its
\* terminator.
PassPlaylists ==
    {Flatten([i \in 1..n |-> LineText(b[i], i) \o (IF i = n /\ ~last THEN <<>> ELSE nl)]) :
        <<n, b, nl, last>> \in
            UNION {{<<k, c, t, l>> : c \in [1..k -> PassKinds],
                                     t \in {<<LF>>, <<CR, LF>>, <<CR>>},
                                     l \in BOOLEAN} : k \in 0..MaxLines}}

\* The characters after "##" in the headers given to extract_hour_from_header.
HeaderAlphabet == {"S", "1", "4", " ", "\t"}

\* The header lines a pass can meet: "##", up to MaxHeaderBody characters,
\* and "\n" unless the line is the last of a file that does not end in one.
HeaderLines ==
    {HeaderPrefix \o body \o term :
        body \in UNION {[1..k -> HeaderAlphabet] : k \in 0..MaxHeaderBody},
        term \in {<<>>, <<LF>>}}

---------------------------------------------------------------------------
\* The initial states

args == <<os_name, directory, output, listing>>

\* The working directory before the first run: the inputs a and b in the scan
\* directory dir, and sa, so in the way of the output directories a and out.
InitialFs(dir, a, b, sa, so) ==
    LET present == {n \in {FileA, FileB} : (IF n = FileA THEN a ELSE b) # Absent}
        inputs == Restrict([n \in {FileA, FileB} |-> IF n = FileA THEN a ELSE b], present)
    IN  [n \in TopNames |->
            IF n = NameA THEN sa
            ELSE IF n = NameOut THEN so
            ELSE IF dir = DOT /\ n = FileA THEN a
            ELSE IF dir = DOT /\ n = FileB THEN b
            ELSE IF dir # DOT /\ n = dir THEN DirNode(inputs, FALSE)
            ELSE Absent]

\* The process before main runs: the command line, the platform and the
\* working directory are any of the bounded choices.
Init ==
    /\ os_name \in {"posix", "nt"}
    /\ directory \in {DOT, NameIn}
    /\ output \in {NONE, NameOut, NameIn}
    /\ listing \in {<<FileA, FileB>>, <<FileB, FileA>>}
    /\ fs \in {InitialFs(directory, a, b, sa, so) :
                  a \in InputNodes, b \in InputNodes, sa \in StaleNodes, so \in StaleNodes}
    /\ m3u_files = <<>>
    /\ idx = 0
    /\ pc = "start"
    /\ flines = <<>>
    /\ pos = 1
    /\ hour = NONE
    /\ current_hour_filename = NONE
    /\ exit_status = Running
    /\ error = NoError
    /\ run = 1
    /\ snaps = <<fs>>

\* A single call process_m3u_file("./a.m3u", "a") right after main created the
\* output directory a: the playlist is any of PassPlaylists.
InitPass ==
    /\ os_name \in {"posix", "nt"}
    /\ directory = DOT
    /\ output = NONE
    /\ listing = <<FileA>>
    /\ fs \in {[n \in TopNames |->
                   IF n = FileA THEN FileNode(p, FALSE)
                   ELSE IF n = NameA THEN EmptyDir
                   ELSE Absent] : p \in PassPlaylists}
    /\ m3u_files = <<FileA>>
    /\ idx = 1
    /\ pc = "open"
    /\ flines = <<>>
    /\ pos = 1
    /\ hour = NONE
    /\ current_hour_filename = NONE
    /\ exit_status = Running
    /\ error = NoError
    /\ run = 1
    /\ snaps = <<fs>>

\* process_m3u_file at a header line: the line is any of HeaderLines.
InitHour ==
    /\ os_name \in {"posix", "nt"}
    /\ directory = DOT
    /\ output = NONE
    /\ listing = <<FileA>>
    /\ flines \in {<<h>> : h \in HeaderLines}
    /\ fs = [n \in TopNames |->
                IF n = FileA THEN FileNode(flines[1], FALSE)
                ELSE IF n = NameA THEN EmptyDir
                ELSE Absent]
    /\ m3u_files = <<FileA>>
    /\ idx = 1
    /\ pc = "lines"
    /\ pos = 1
    /\ hour = NONE
    /\ current_hour_filename = NONE
    /\ exit_status = Running
    /\ error = NoError
    /\ run = 1
    /\ snaps = <<fs>>

---------------------------------------------------------------------------
\* The steps of the process

\* A mutant of SysExit: the failure is recorded and the loop of main goes on
\* with the next file.
SysExitAndContinue(kind) ==
    /\ exit_status' = <<1>>
    /\ error' = kind
    /\ IF idx < Len(m3u_files)
       THEN pc' = "recreate" /\ idx' = idx + 1
       ELSE pc' = "exited" /\ UNCHANGED idx

\* sys.exit(1) in process_m3u_file: SystemExit is no Exception, so no handler
\* of the function catches it and the process ends with status 1.
SysExit(kind) ==
    /\ pc' = "exited"
    /\ exit_status' = <<1>>
    /\ error' = kind
    /\ UNCHANGED idx

\* An exception no handler catches: the interpreter prints the traceback and
\* the process ends with status 1.
Uncaught(kind) ==
    /\ pc' = "exited"
    /\ exit_status' = <<1>>
    /\ error' = kind
    /\ UNCHANGED idx

\* main up to the loop: the scan directory is listed; without .m3u files a
\* warning is logged and main returns.
Start ==
    /\ pc = "start"
    /\ m3u_files' = find_m3u_files(fs, directory, listing)
    /\ IF m3u_files' = <<>>
       THEN pc' = "done" /\ exit_status' = <<0>> /\ UNCHANGED idx
       ELSE pc' = "recreate" /\ idx' = 1 /\ UNCHANGED exit_status
    /\ UNCHANGED <<args, fs, flines, pos, hour, current_hour_filename, error, run, snaps>>

\* The loop body of main up to create_or_recreate_directory(output_dir).
RecreateDirectory ==
    /\ pc = "recreate"
    /\ \E r \in create_or_recreate_directory(
                    fs, OutputDir(output, m3u_files[idx]), os_name) :
          /\ fs' = r.fs
          /\ IF r.ok
             THEN pc' = "open" /\ UNCHANGED <<idx, exit_status, error>>
             ELSE Uncaught(r.error)
    /\ UNCHANGED <<args, m3u_files, flines, pos, hour, current_hour_filename, run, snaps>>

\* process_m3u_file up to the loop: the state is unset and the input opened.
OpenInput ==
    /\ pc = "open"
    /\ current_hour_filename' = NONE
    /\ LET node == NodeAt(fs, directory, m3u_files[idx])
       IN  IF node.kind = "file"
           THEN /\ flines' = ReadLines(node.data)
                /\ pos' = 1
                /\ pc' = "lines"
                /\ UNCHANGED <<idx, exit_status, error>>
           ELSE /\ SysExit(IF node.kind = "absent" THEN "FileNotFoundError"
                           ELSE "Exception")
                /\ UNCHANGED <<flines, pos>>
    /\ UNCHANGED <<args, fs, m3u_files, hour, run, snaps>>

\* A mutant of ProcessLine: a header does not replace a file name already set.
ProcessLineKeepFirstHour ==
    /\ pc = "lines"
    /\ pos <= Len(flines)
    /\ LET line == flines[pos]
           filename == m3u_files[idx]
           output_directory == OutputDir(output, filename)
       IN  IF StartsWith(line, HeaderPrefix)
           THEN /\ hour' = extract_hour_from_header(line)
                /\ current_hour_filename' =
                       IF current_hour_filename = NONE
                       THEN HourFilename(filename, hour')
                       ELSE current_hour_filename
                /\ pos' = pos + 1
                /\ UNCHANGED <<fs, pc, idx, exit_status, error>>
           ELSE IF current_hour_filename = NONE
           THEN /\ SysExit("MissingHeader")
                /\ UNCHANGED <<fs, hour, current_hour_filename, pos>>
           ELSE /\ fs' = AppendLine(fs, output_directory, current_hour_filename,
                                    line, os_name)
                /\ pos' = pos + 1
                /\ UNCHANGED <<hour, current_hour_filename, pc, idx, exit_status, error>>
    /\ UNCHANGED <<args, m3u_files, flines, run, snaps>>

\* A mutant of ProcessLine: content met before any header is skipped.
ProcessLineSkipUnset ==
    /\ pc = "lines"
    /\ pos <= Len(flines)
    /\ LET line == flines[pos]
           filename == m3u_files[idx]
           output_directory == OutputDir(output, filename)
       IN  IF StartsWith(line, HeaderPrefix)
           THEN /\ hour' = extract_hour_from_header(line)
                /\ current_hour_filename' = HourFilename(filename, hour')
                /\ pos' = pos + 1
                /\ UNCHANGED <<fs, pc, idx, exit_status, error>>
           ELSE IF current_hour_filename = NONE
           THEN /\ pos' = pos + 1
                /\ UNCHANGED <<fs, hour, current_hour_filename, pc, idx,
                               exit_status, error>>
           ELSE /\ fs' = AppendLine(fs, output_directory, current_hour_filename,
                                    line, os_name)
                /\ pos' = pos + 1
                /\ UNCHANGED <<hour, current_hour_filename, pc, idx, exit_status, error>>
    /\ UNCHANGED <<args, m3u_files, flines, run, snaps>>

\* One iteration of the loop of process_m3u_file over the next line.  A header
\* sets the current file name; content with the name unset ends the process;
\* other content is appended to the current file, whose open fails (and the
\* handler exits) when the name holds a separator, the directories it names
\* being absent from the fresh output directory.
ProcessLine ==
    /\ pc = "lines"
    /\ pos <= Len(flines)
    /\ LET line == flines[pos]
           filename == m3u_files[idx]
           output_directory == OutputDir(output, filename)
       IN  IF StartsWith(line, HeaderPrefix)
           THEN /\ hour' = extract_hour_from_header(line)
                /\ current_hour_filename' = HourFilename(filename, hour')
                /\ pos' = pos + 1
                /\ UNCHANGED <<fs, pc, idx, exit_status, error>>
           ELSE IF current_hour_filename = NONE
           THEN /\ SysExit("MissingHeader")
                /\ UNCHANGED <<fs, hour, current_hour_filename, pos>>
           ELSE IF \/ ~IsDir(fs, output_directory)
                   \/ \E i \in 1..Len(current_hour_filename) :
                          current_hour_filename[i] = "/"
           THEN /\ SysExit("FileNotFoundError")
                /\ UNCHANGED <<fs, hour, current_hour_filename, pos>>
           ELSE /\ fs' = AppendLine(fs, output_directory, current_hour_filename,
                                    line, os_name)
                /\ pos' = pos + 1
                /\ UNCHANGED <<hour, current_hour_filename, pc, idx, exit_status, error>>
    /\ UNCHANGED <<args, m3u_files, flines, run, snaps>>

\* The input is exhausted: process_m3u_file returns, and main goes on with the
\* next file or, after the last, returns.
EndOfFile ==
    /\ pc = "lines"
    /\ pos > Len(flines)
    /\ IF idx < Len(m3u_files)
       THEN pc' = "recreate" /\ idx' = idx + 1 /\ UNCHANGED exit_status
       ELSE pc' = "done" /\ exit_status' = <<0>> /\ UNCHANGED idx
    /\ UNCHANGED <<args, fs, m3u_files, flines, pos, hour, current_hour_filename,
                   error, run, snaps>>

\* The operator starts the tool again, with the same command line, in the
\* working directory the last run left.
Rerun ==
    /\ pc \in {"done", "exited"}
    /\ run < MaxRuns
    /\ run' = run + 1
    /\ snaps' = Append(snaps, fs)
    /\ pc' = "start"
    /\ m3u_files' = <<>>
    /\ idx' = 0
    /\ flines' = <<>>
    /\ pos' = 1
    /\ hour' = NONE
    /\ current_hour_filename' = NONE
    /\ exit_status' = Running
    /\ error' = NoError
    /\ UNCHANGED <<args, fs>>

Next == Start \/ RecreateDirectory \/ OpenInput \/ ProcessLine \/ EndOfFile \/ Rerun
Spec == Init /\ [][Next]_vars

NextPass == OpenInput \/ ProcessLine \/ EndOfFile
SpecPass == InitPass /\ [][NextPass]_vars

NextHour == ProcessLine
SpecHour == InitHour /\ [][NextHour]_vars

---------------------------------------------------------------------------
\* What the claims speak of

\* A marker line: a line that begins with "##".
IsHeader(l) == Len(l) >= 2 /\ l[1] = "#" /\ l[2] = "#"

RECURSIVE TrimLeft(_)
TrimLeft(s) == IF s # <<>> /\ Head(s) \in Whitespace THEN TrimLeft(Tail(s)) ELSE s
RECURSIVE TrimRight(_)
TrimRight(s) ==
    IF s # <<>> /\ s[Len(s)] \in Whitespace THEN TrimRight(SubSeq(s, 1, Len(s) - 1))
    ELSE s

\* s without its leading and trailing whitespace and line terminators.
Trim(s) == TrimRight(TrimLeft(s))

\* The final three characters of s, or s when it has fewer.
FinalThree(s) == [i \in 1..(IF Len(s) < 3 THEN Len(s) ELSE 3) |->
                     s[Len(s) - (IF Len(s) < 3 THEN Len(s) ELSE 3) + i]]

\* The hour label of a marker line.
LabelOf(l) == Trim(FinalThree(l))

\* The lines of ls at the indices in I, in their order.
Pick(ls, I) ==
    LET F[i \in 0..Len(ls)] ==
            IF i = 0 THEN <<>>
            ELSE IF i \in I THEN Append(F[i - 1], ls[i]) ELSE F[i - 1]
    IN  F[Len(ls)]

Headers(ls) == {i \in 1..Len(ls) : IsHeader(ls[i])}
Contents(ls) == {i \in 1..Len(ls) : ~IsHeader(ls[i])}

\* The index of the marker line a line i follows, 0 when it follows none.
Governing(ls, i) ==
    LET before == {j \in Headers(ls) : j < i}
    IN  IF before = {} THEN 0 ELSE CHOOSE j \in before : \A k \in before : k <= j

\* The content lines that follow a marker with label L up to the next marker.
ContentUnder(ls, L) ==
    {i \in Contents(ls) : Governing(ls, i) > 0 /\ LabelOf(ls[Governing(ls, i)]) = L}

Labels(ls) == {LabelOf(ls[j]) : j \in Headers(ls)}

\* The labels of ls in the order of their first marker.
DiscoveryOrder(ls) ==
    LET F[i \in 0..Len(ls)] ==
            IF i = 0 THEN <<>>
            ELSE IF IsHeader(ls[i])
                    /\ \A k \in 1..Len(F[i - 1]) : F[i - 1][k] # LabelOf(ls[i])
                 THEN Append(F[i - 1], LabelOf(ls[i]))
                 ELSE F[i - 1]
    IN  F[Len(ls)]

\* The lines of a file with the terminators it has: "\r\n", "\r" or "\n".
RECURSIVE RawFrom(_, _, _)
RawFrom(raw, i, cur) ==
    IF i > Len(raw) THEN (IF cur = <<>> THEN <<>> ELSE <<cur>>)
    ELSE IF raw[i] = CR /\ i < Len(raw) /\ raw[i + 1] = LF
        THEN <<cur \o <<CR, LF>>>> \o RawFrom(raw, i + 2, <<>>)
    ELSE IF raw[i] = CR \/ raw[i] = LF
        THEN <<cur \o <<raw[i]>>>> \o RawFrom(raw, i + 1, <<>>)
    ELSE RawFrom(raw, i + 1, cur \o <<raw[i]>>)
RawLines(raw) == RawFrom(raw, 1, <<>>)

\* How often l occurs in the sequence ls.
Count(l, ls) == Cardinality({i \in 1..Len(ls) : ls[i] = l})

\* The input of the current pass as it was when the run started, its name
\* without the extension, and the pass's output directory.
PassFile == m3u_files[idx]
PassRaw == NodeAt(snaps[run], directory, PassFile).data
PassBase == SubSeq(PassFile, 1, Len(PassFile) - Len(M3U))
PassDir == IF output = NONE THEN PassBase ELSE output
PassOut == fs[PassDir].ents

\* <input-base-name><hour-label>.m3u and the contents of that output file.
HourName(L) == PassBase \o L \o M3U
HourData(L) == IF HourName(L) \in DOMAIN PassOut THEN PassOut[HourName(L)].data ELSE <<>>

\* The pass of the last discovered file completed without error.
PassDone == pc = "done" /\ exit_status = <<0>> /\ m3u_files # <<>>

---------------------------------------------------------------------------
\* The claims

\* C7: for every marker line, with or without its terminator and of two
\* characters or more, the hour extract_hour_from_header returns is the final
\* three characters of the line without their leading and trailing whitespace
\* and line terminators; nothing checks that the label is an hour.
C7_HourIsTrimmedTail ==
    (pc = "lines" /\ pos > 1 /\ IsHeader(flines[pos - 1]))
        => hour = LabelOf(flines[pos - 1])

\* The header "## 14" followed by a newline has yielded the label "14".
C7_Witness ==
    /\ pos = 2
    /\ flines[1] = <<"#", "#", " ", "1", "4", LF>>
    /\ hour = <<"1", "4">>

\* C6: no content line is written unless a marker line precedes it in the
\* pass: the current file name is unset exactly as long as no marker has been
\* read, every content line the pass got past follows a marker, and content
\* met while the name is unset ends the process with a non-zero status and
\* an output directory without files.
C6_ContentNeedsHeader ==
    /\ (current_hour_filename = NONE) <=> (\A i \in 1..(pos - 1) : ~IsHeader(flines[i]))
    /\ \A i \in 1..(pos - 1) : ~IsHeader(flines[i]) => Governing(flines, i) > 0
    /\ DOMAIN PassOut # {} => \E i \in 1..(pos - 1) : IsHeader(flines[i])
    /\ error = "MissingHeader" =>
          /\ pc = "exited"
          /\ exit_status \notin {Running, <<0>>}
          /\ ~IsHeader(flines[pos])
          /\ Governing(flines, pos) = 0
          /\ DOMAIN PassOut = {}

\* A playlist whose first line is content, with more lines after it, has ended
\* the process.
C6_Witness ==
    /\ error = "MissingHeader"
    /\ pos = 1
    /\ Len(flines) >= 2
    /\ \E i \in 2..Len(flines) : IsHeader(flines[i])


\* The lines of the input of the pass, as text mode reads them.
PLines == ReadLines(PassRaw)
ContentLines == Pick(PLines, Contents(PLines))

\* The contents of the per-hour files, one after the other in the order in
\* which their labels were first met.
OutputConcat ==
    LET order == DiscoveryOrder(PLines)
    IN  Flatten([k \in 1..Len(order) |-> HourData(order[k])])

\* How often the line l occurs in the files named in S of the output directory.
RECURSIVE CountInFiles(_, _)
CountInFiles(l, S) ==
    IF S = {} THEN 0
    ELSE LET n == CHOOSE x \in S : TRUE
         IN  Count(l, ReadLines(PassOut[n].data)) + CountInFiles(l, S \ {n})

\* The lines of the files of the output directory.
OutputLineSet ==
    UNION {{ReadLines(PassOut[n].data)[i] : i \in 1..Len(ReadLines(PassOut[n].data))} :
              n \in DOMAIN PassOut}

\* No label comes back in a marker after a marker with another label.
NoLabelRecurs(ls) ==
    \A i, j, k \in Headers(ls) :
        (i < j /\ j < k /\ LabelOf(ls[i]) = LabelOf(ls[k])) => LabelOf(ls[j]) = LabelOf(ls[i])

\* No line of an output file is a marker line.
NoHeaderWritten == \A l \in OutputLineSet : ~IsHeader(l)

\* C1 as stated: after a pass into a fresh directory, the per-hour files
\* concatenated in the order their labels were discovered are the content
\* lines of the playlist in their original order.
C1_ConcatIsContent ==
    PassDone => ReadLines(OutputConcat) = ContentLines

\* C1 as amended: every generated file is the file of a label of the playlist;
\* the lines of the generated files are the content lines of the playlist, each
\* as often as it occurs there; and when no label recurs after a marker with
\* another label, the files concatenated in discovery order are the content
\* lines in their original order.
C1_ConcatWhenNoLabelRecurs ==
    PassDone =>
        /\ DOMAIN PassOut \subseteq {HourName(L) : L \in Labels(PLines)}
        /\ \A l \in OutputLineSet \cup {ContentLines[i] : i \in 1..Len(ContentLines)} :
               CountInFiles(l, DOMAIN PassOut) = Count(l, ContentLines)
        /\ NoLabelRecurs(PLines) => ReadLines(OutputConcat) = ContentLines

\* A pass over a playlist without recurring label has written three content
\* lines or more into the files of two labels.
C1_Witness ==
    /\ PassDone
    /\ NoLabelRecurs(PLines)
    /\ Cardinality(DOMAIN PassOut) = 2
    /\ Len(ContentLines) >= 3

\* The content lines under the label L as text mode writes them: every "\n"
\* as the line separator of the platform.
WrittenUnder(L) ==
    LET ls == Pick(PLines, ContentUnder(PLines, L))
    IN  Flatten([k \in 1..Len(ls) |-> WriteText(os_name, ls[k])])

\* C2 as stated: after a pass into a fresh directory the file of every label
\* holds the content lines that followed a marker with that label, in order,
\* each once and with the exact characters it has in the input, terminator
\* included; and no output file holds a marker line.
C2_ExactOriginalLines ==
    PassDone =>
        /\ \A L \in Labels(PLines) :
               HourData(L) = Flatten(Pick(RawLines(PassRaw), ContentUnder(PLines, L)))
        /\ NoHeaderWritten

\* C2 as amended: the file of every label holds the content lines that
\* followed a marker with that label, in order, each once and as text mode
\* read and wrote it: its characters before the terminator unchanged, its
\* terminator written as the line separator of the platform; and no output
\* file holds a marker line.
C2_HourFilesHoldTheirLines ==
    PassDone =>
        /\ \A L \in Labels(PLines) : HourData(L) = WrittenUnder(L)
        /\ NoHeaderWritten

\* A pass over a playlist with "\r\n" or "\r" terminators has written two lines from
\* separate sections of one label and a line of another label between them.
C2_Witness ==
    /\ PassDone
    /\ \E i \in 1..Len(PassRaw) : PassRaw[i] = CR
    /\ \E i, j, k \in Contents(PLines) :
          /\ i < j /\ j < k
          /\ Governing(PLines, i) # Governing(PLines, k)
          /\ LabelOf(PLines[Governing(PLines, i)]) = LabelOf(PLines[Governing(PLines, k)])
          /\ LabelOf(PLines[Governing(PLines, j)]) # LabelOf(PLines[Governing(PLines, i)])

\* C3 as stated: after a pass without error the names of the files in the
\* output directory are the names <input-base-name><hour-label>.m3u of the
\* labels of all the marker lines of the input, no more and no fewer.
C3_OneFilePerLabel ==
    PassDone => DOMAIN PassOut = {HourName(L) : L \in Labels(PLines)}


\* The i-th discovered file of the run: its lines as text mode reads them, its
\* name without the extension, and its per-hour file names and contents.
LinesOf(i) == ReadLines(NodeAt(snaps[run], directory, m3u_files[i]).data)
BaseOf(i) == SubSeq(m3u_files[i], 1, Len(m3u_files[i]) - Len(M3U))
WrittenOf(i, L) ==
    LET ls == Pick(LinesOf(i), ContentUnder(LinesOf(i), L))
    IN  Flatten([k \in 1..Len(ls) |-> WriteText(os_name, ls[k])])

\* C4 as stated: when -o is set and a run over two files or more succeeds,
\* the one output directory holds at the end the per-hour files of every
\* processed file.
C4_SharedDirectoryHoldsAll ==
    (pc = "done" /\ exit_status = <<0>> /\ output # NONE /\ Len(m3u_files) >= 2) =>
        \A i \in 1..Len(m3u_files) :
            \A L \in Labels(LinesOf(i)) :
                ContentUnder(LinesOf(i), L) # {} =>
                    /\ BaseOf(i) \o L \o M3U \in DOMAIN fs[output].ents
                    /\ fs[output].ents[BaseOf(i) \o L \o M3U].data = WrittenOf(i, L)

\* The names of the .m3u files of the scan directory in the file system f,
\* with their contents.
InputsIn(f) ==
    {<<n, NodeAt(f, directory, n).data>> :
        n \in {m \in {listing[i] : i \in 1..Len(listing)} :
                  NodeAt(f, directory, m).kind = "file"}}

\* C5: in the default output mode a run that follows a run over the same
\* inputs leaves every output directory with the file names and contents the
\* earlier run left: nothing accumulates in the files opened for appending.
C5_SecondRunSameOutput ==
    (run >= 2 /\ pc \in {"done", "exited"} /\ output = NONE
        /\ InputsIn(snaps[run]) = InputsIn(snaps[run - 1])) =>
        \A in \in InputsIn(snaps[run]) :
            fs[SubSeq(in[1], 1, Len(in[1]) - Len(M3U))]
                = snaps[run][SubSeq(in[1], 1, Len(in[1]) - Len(M3U))]

\* A second run over two playlists has ended with status 0 and left per-hour
\* files with content, as the first did.
C5_Witness ==
    /\ run = 2
    /\ pc = "done"
    /\ exit_status = <<0>>
    /\ output = NONE
    /\ Len(m3u_files) = 2
    /\ \A i \in 1..2 : \E n \in DOMAIN fs[BaseOf(i)].ents : fs[BaseOf(i)].ents[n].data # <<>>
    /\ \A i \in 1..2 : snaps[2][BaseOf(i)] = fs[BaseOf(i)]

\* C8, as a property of every step: when create_or_recreate_directory returns
\* normally, a directory is at the name and it is empty; when the name is a
\* regular file the call ends the process with a non-zero status and leaves
\* the file system as it was; so every pass starts with an empty output
\* directory.
C8_Step ==
    /\ (pc = "recreate" /\ pc' = "open") =>
           /\ fs'[PassDir].kind = "dir"
           /\ DOMAIN fs'[PassDir].ents = {}
    /\ (pc = "recreate" /\ fs[PassDir].kind = "file") =>
           /\ pc' = "exited"
           /\ exit_status' \notin {Running, <<0>>}
           /\ fs' = fs
    /\ (pc = "open" /\ pc' = "lines") =>
           /\ fs[PassDir].kind = "dir"
           /\ DOMAIN fs[PassDir].ents = {}
C8_EmptyDirectoryOrFatal == [][C8_Step]_vars

\* A directory that held a read-only entry before the run is empty after
\* create_or_recreate_directory returned.
C8_Witness ==
    /\ pc = "open"
    /\ run = 1
    /\ idx = 1
    /\ snaps[1][PassDir].kind = "dir"
    /\ \E n \in DOMAIN snaps[1][PassDir].ents : snaps[1][PassDir].ents[n].ro
    /\ DOMAIN fs[PassDir].ents = {}

\* C9, as a property of every step: a non-zero status means the process has
\* ended, and after its end only a new run follows; the step in which
\* process_m3u_file detects a fatal condition leaves the file system as it
\* is; the loop moves from a file to the next one only, and only once the
\* lines of the file are exhausted; and the output directory of a file later
\* in the list is as it was when the run started.
C9_Step ==
    /\ exit_status' \notin {Running, <<0>>} => pc' = "exited"
    /\ pc = "exited" => run' = run + 1
    /\ (pc \in {"open", "lines"} /\ pc' = "exited") => fs' = fs
    /\ (run' = run /\ idx' # idx) =>
           /\ idx' = idx + 1
           /\ idx = 0 \/ (pc = "lines" /\ pos > Len(flines))
    /\ (run' = run /\ output = NONE) =>
           \A j \in (idx' + 1)..Len(m3u_files') :
               fs'[SplitextRoot(m3u_files'[j])] = snaps[run][SplitextRoot(m3u_files'[j])]
C9_BadFileAbortsBatch == [][C9_Step]_vars

\* The first of two playlists has ended the process after part of its output
\* was written, which is still there, and the second has no output directory.
C9_Witness ==
    /\ pc = "exited"
    /\ exit_status = <<1>>
    /\ error = "FileNotFoundError"
    /\ output = NONE
    /\ Len(m3u_files) = 2
    /\ idx = 1
    /\ DOMAIN fs[BaseOf(1)].ents # {}
    /\ fs[BaseOf(2)].kind = "absent"

\* C10 as stated: every discovered input file is, at every moment of the run,
\* in the scan directory with the contents it had when the run started.
C10_InputsUntouched ==
    \A i \in 1..Len(m3u_files) :
        NodeAt(fs, directory, m3u_files[i]) = NodeAt(snaps[run], directory, m3u_files[i])

====
